---------------------------- MODULE Spec2Model ----------------------------
(***************************************************************************)
(* Model of Weather/Project/location.py: class Location.                   *)
(*                                                                         *)
(* Text is a sequence of one-character strings, so that x[-1], x[:-1] and  *)
(* string concatenation are computed as the code computes them.  A float   *)
(* is an integer number of tenths of a degree (48.8 is 488); -0.0 and 0.0  *)
(* are the same number.  A cell of the pandas frame is a record            *)
(* [t, s, v]: a str (t = "str", text s), a float (t = "float", value v) or *)
(* the missing value NaN (t = "nan", which Python types as float).         *)
(***************************************************************************)
EXTENDS Integers, Sequences, FiniteSets, TLC

VARIABLES
    storage,       \* the CSV file at self.path: a sequence of rows of cell texts
    data,          \* self.data: the frame in memory
    cities,        \* _get_coordinates: the de-duplicated frame `cities`
    i,             \* _get_coordinates: loop index (1-based)
    cities_coord,  \* _get_coordinates: dict City_Country -> <<lat, lng>>
    pc,            \* position of the load: idle, get_coordinates, loop,
                   \* to_csv, returned, raised
    error,         \* the exception that left __init__, or "none"
    loadNo,        \* number of Location(path, api_key) constructions started
    lookups,       \* this load: address text -> number of requests.get calls
    failedKeys,    \* this load: keys for which google_coords returned None
    writes,        \* this load: number of to_csv calls
    pre,           \* content of the file when this load started
    raw,           \* self.data as this load read it (after line 34)
    prev,          \* what the previous load did: [ran, returned, coords]
    px,            \* parser run: the argument x of _coords
    pres           \* parser run: the outcome of _coords(x), or unset

vars == <<storage, data, cities, i, cities_coord, pc, error, loadNo, lookups,
          failedKeys, writes, pre, raw, prev, px, pres>>

loadVars == <<storage, data, cities, i, cities_coord, pc, error, loadNo,
              lookups, failedKeys, writes, pre, raw, prev>>

---------------------------------------------------------------------------
(* Bounds *)

MaxRows == 2

MaxLoads == 2

MaxMagnitude == 30

---------------------------------------------------------------------------
(* Values *)

Str(s) == [t |-> "str", s |-> s, v |-> 0]

Float(v) == [t |-> "float", s |-> <<>>, v |-> v]

NaN == [t |-> "nan", s |-> <<>>, v |-> 0]

Ok(v) == [err |-> "none", v |-> v]

Raise(e) == [err |-> e, v |-> 0]

Digits == {"0", "1", "2", "3", "4", "5", "6", "7", "8", "9"}

DigitVal(c) ==
    CASE c = "0" -> 0 [] c = "1" -> 1 [] c = "2" -> 2 [] c = "3" -> 3
      [] c = "4" -> 4 [] c = "5" -> 5 [] c = "6" -> 6 [] c = "7" -> 7
      [] c = "8" -> 8 [] c = "9" -> 9

DigitChar(d) ==
    CASE d = 0 -> "0" [] d = 1 -> "1" [] d = 2 -> "2" [] d = 3 -> "3"
      [] d = 4 -> "4" [] d = 5 -> "5" [] d = 6 -> "6" [] d = 7 -> "7"
      [] d = 8 -> "8" [] d = 9 -> "9"

RECURSIVE IntVal(_)
IntVal(ds) ==
    IF Len(ds) = 0 THEN 0
    ELSE 10 * IntVal(SubSeq(ds, 1, Len(ds) - 1)) + DigitVal(ds[Len(ds)])

RECURSIVE IntStr(_)
IntStr(n) ==
    IF n < 10 THEN <<DigitChar(n)>>
    ELSE IntStr(n \div 10) \o <<DigitChar(n % 10)>>

\* float(s) for a text of an optional sign, digits and at most one point.
\* The value is in tenths: fraction digits after the first are dropped.
ParseFloat(s) ==
    LET signed == Len(s) > 0 /\ s[1] \in {"+", "-"}
        u      == IF signed THEN Tail(s) ELSE s
        points == {k \in 1..Len(u) : u[k] = "."}
        nondig == {k \in 1..Len(u) : u[k] \notin Digits \cup {"."}}
        p      == IF points = {} THEN Len(u) + 1 ELSE CHOOSE k \in points : TRUE
        ip     == SubSeq(u, 1, p - 1)
        fp     == SubSeq(u, p + 1, Len(u))
        mag    == 10 * IntVal(ip) + (IF Len(fp) = 0 THEN 0 ELSE DigitVal(fp[1]))
    IN  IF nondig # {} \/ Cardinality(points) > 1 \/ Len(ip) + Len(fp) = 0
        THEN Raise("ValueError")
        ELSE Ok(IF signed /\ s[1] = "-" THEN 0 - mag ELSE mag)

\* repr of a float, as to_csv and an f-string write it: 5.0, -2.5, 48.8
FormatFloat(v) ==
    LET a == IF v < 0 THEN 0 - v ELSE v
    IN  (IF v < 0 THEN <<"-">> ELSE <<>>)
        \o IntStr(a \div 10) \o <<".">> \o <<DigitChar(a % 10)>>

\* str(value), as an f-string formats a cell
Fmt(c) ==
    CASE c.t = "str" -> c.s
      [] c.t = "nan" -> <<"n", "a", "n">>
      [] c.t = "float" -> FormatFloat(c.v)

---------------------------------------------------------------------------
(* Inputs *)

CityTexts == {<<"P">>, <<"L">>, <<>>}

CountryTexts == {<<"F">>}

LatitudeTexts == {<<"5", "N">>, <<"4", "S">>, <<"5", "X">>, <<"5">>}

LongitudeTexts == {<<"2", ".", "5", "W">>}

FileRows ==
    [City : CityTexts, Country : CountryTexts,
     Latitude : LatitudeTexts, Longitude : LongitudeTexts]

Files == UNION {[1..n -> FileRows] : n \in 0..MaxRows}

\* What the geocoding request can come back with: status OK and a first
\* result, another status, a transport exception, a body of another shape.
Responses ==
    {[kind |-> "OK", lat |-> 488, lng |-> 23]}
    \cup {[kind |-> k, lat |-> 0, lng |-> 0] :
            k \in {"ZERO_RESULTS", "transport", "shape"}}

---------------------------------------------------------------------------
(* pandas: read_csv, the derived column, drop_duplicates, to_csv *)

Column(rows, name) == [j \in 1..Len(rows) |-> rows[j][name]]

\* read_csv gives a column a numeric dtype when every cell that is not
\* empty parses as a number, and leaves it a column of str otherwise.
ColumnIsNumeric(col) ==
    \A j \in 1..Len(col) : col[j] = <<>> \/ ParseFloat(col[j]).err = "none"

ReadCell(text, numeric) ==
    IF text = <<>> THEN NaN
    ELSE IF numeric THEN Float(ParseFloat(text).v)
    ELSE Str(text)

ReadCsv(rows) ==
    [j \in 1..Len(rows) |->
        [name \in {"City", "Country", "Latitude", "Longitude"} |->
            ReadCell(rows[j][name], ColumnIsNumeric(Column(rows, name)))]]

\* self.data['City'] + ', ' + self.data['Country'], one element: a missing
\* operand gives a missing result.
CityCountry(r) ==
    IF r.City.t = "str" /\ r.Country.t = "str"
    THEN Str(r.City.s \o <<",", " ">> \o r.Country.s)
    ELSE NaN

\* Lines 31-34.  Adding ', ' to a column of numeric dtype raises TypeError.
DataFrame(rows) ==
    LET df == ReadCsv(rows)
    IN  IF Len(rows) > 0
           /\ (ColumnIsNumeric(Column(rows, "City"))
                \/ ColumnIsNumeric(Column(rows, "Country")))
        THEN [err |-> "TypeError", df |-> <<>>]
        ELSE [err |-> "none",
              df  |-> [j \in 1..Len(df) |->
                         [City |-> df[j].City, Country |-> df[j].Country,
                          Latitude |-> df[j].Latitude,
                          Longitude |-> df[j].Longitude,
                          City_Country |-> CityCountry(df[j])]]]

FirstRowAlwaysText(df) == TRUE

\* type(self.data['Latitude'].iloc[0]) == str
FirstLatitudeIsStr(df) == df[1].Latitude.t = "str"

Project(df) ==
    [j \in 1..Len(df) |->
        [City |-> df[j].City, Country |-> df[j].Country,
         Latitude |-> df[j].Latitude, Longitude |-> df[j].Longitude]]

RECURSIVE Pick(_, _)
Pick(sq, keep) ==
    IF Len(sq) = 0 THEN <<>>
    ELSE Pick(SubSeq(sq, 1, Len(sq) - 1), keep)
         \o (IF Len(sq) \in keep THEN <<sq[Len(sq)]>> ELSE <<>>)

DropDuplicatesKeepLast(sq) ==
    Pick(sq, {j \in 1..Len(sq) : \A h \in (j + 1)..Len(sq) : sq[h] # sq[j]})

\* drop_duplicates().reset_index(drop = True): the first of equal rows stays
DropDuplicates(sq) ==
    Pick(sq, {j \in 1..Len(sq) : \A h \in 1..(j - 1) : sq[h] # sq[j]})

CsvCell(c) ==
    CASE c.t = "str" -> c.s
      [] c.t = "nan" -> <<>>
      [] c.t = "float" -> FormatFloat(c.v)

\* to_csv(self.path, index = False), the four columns the model reads back
ToCsvRows(df) ==
    [j \in 1..Len(df) |->
        [City |-> CsvCell(df[j].City), Country |-> CsvCell(df[j].Country),
         Latitude |-> CsvCell(df[j].Latitude),
         Longitude |-> CsvCell(df[j].Longitude)]]

---------------------------------------------------------------------------
(* Location: the pure methods *)

CoordsSouthPositive(x) ==
    IF x.t # "str" THEN Raise("TypeError")
    ELSE IF Len(x.s) = 0 THEN Raise("IndexError")
    ELSE LET sign == IF x.s[Len(x.s)] \in {"N", "E", "S"} THEN 1 ELSE -1
             f    == ParseFloat(SubSeq(x.s, 1, Len(x.s) - 1))
         IN  IF f.err # "none" THEN f ELSE Ok(sign * f.v)

\* _coords: sign = 1 if x[-1] in ('N', 'E') else -1; sign * float(x[:-1])
Coords(x) ==
    IF x.t # "str" THEN Raise("TypeError")
    ELSE IF Len(x.s) = 0 THEN Raise("IndexError")
    ELSE LET sign == IF x.s[Len(x.s)] \in {"N", "E"} THEN 1 ELSE -1
             f    == ParseFloat(SubSeq(x.s, 1, Len(x.s) - 1))
         IN  IF f.err # "none" THEN f ELSE Ok(sign * f.v)

\* coordinates: [_coords(Latitude), _coords(Longitude)], Latitude first
Coordinates(city) ==
    LET la == Coords(city.Latitude)
        lo == Coords(city.Longitude)
    IN  IF la.err # "none" THEN [err |-> la.err, pair |-> <<0, 0>>]
        ELSE IF lo.err # "none" THEN [err |-> lo.err, pair |-> <<0, 0>>]
        ELSE [err |-> "none", pair |-> <<la.v, lo.v>>]

\* f"{city['City']}, {city['Country']}": the address sent and the dict key
AddressKey(city) == Fmt(city.City) \o <<",", " ">> \o Fmt(city.Country)

\* The body of the try block: what requests.get(...).json() and the
\* subscripts on the response raise.
TryRequest(resp) ==
    CASE resp.kind = "transport" -> "ConnectionError"
      [] resp.kind = "shape" -> "ResponseKeyError"
      [] OTHER -> "none"

None == [err |-> "none", none |-> TRUE, pair |-> <<0, 0>>]

GoogleCoordsNoExcept(resp) ==
    IF TryRequest(resp) # "none"
    THEN [err |-> TryRequest(resp), none |-> TRUE, pair |-> <<0, 0>>]
    ELSE IF resp.kind = "OK"
    THEN [err |-> "none", none |-> FALSE, pair |-> <<resp.lat, resp.lng>>]
    ELSE None

\* google_coords: the pair on status OK, None on any other status and on
\* any exception
GoogleCoords(resp) ==
    IF TryRequest(resp) # "none" THEN None
    ELSE IF resp.kind = "OK"
    THEN [err |-> "none", none |-> FALSE, pair |-> <<resp.lat, resp.lng>>]
    ELSE None

LookupAlways(key, coord) == TRUE

\* if city_country not in cities_coord
NeedsLookup(key, coord) == key \notin DOMAIN coord

EmptyMap == [k \in {} |-> <<0, 0>>]

Put(f, k, val) == [x \in DOMAIN f \cup {k} |-> IF x = k THEN val ELSE f[x]]

\* The dict lookup cities_coord[x] of the two map calls: a str key that is
\* in the dict.
HasKey(coord, x) == x.t = "str" /\ x.s \in DOMAIN coord

MapColumnsLatitudeTwice(df, coord) ==
    [j \in 1..Len(df) |->
        [df[j] EXCEPT !.Latitude = Float(coord[df[j].City_Country.s][1]),
                      !.Longitude = Float(coord[df[j].City_Country.s][1])]]

\* Lines 136-137: Latitude from element 0, Longitude from element 1
MapColumns(df, coord) ==
    [j \in 1..Len(df) |->
        [df[j] EXCEPT !.Latitude = Float(coord[df[j].City_Country.s][1]),
                      !.Longitude = Float(coord[df[j].City_Country.s][2])]]

CoordsOf(df) == [j \in 1..Len(df) |-> <<df[j].Latitude, df[j].Longitude>>]

---------------------------------------------------------------------------
(* Location: the load, statement by statement *)

Unset == [err |-> "unset", v |-> 0]

NoPrev == [ran |-> FALSE, returned |-> FALSE, coords |-> <<>>]

Init ==
    /\ storage \in Files
    /\ data = <<>>
    /\ cities = <<>>
    /\ i = 0
    /\ cities_coord = EmptyMap
    /\ pc = "idle"
    /\ error = "none"
    /\ loadNo = 0
    /\ lookups = EmptyMap
    /\ failedKeys = {}
    /\ writes = 0
    /\ pre = storage
    /\ raw = <<>>
    /\ prev = NoPrev
    /\ px = <<>>
    /\ pres = Unset

\* __init__, lines 29-36 up to the call of _update_file.  A load starts
\* when no other is running; the counter bounds the number of loads.
Construct ==
    /\ pc \in {"idle", "returned", "raised"}
    /\ loadNo < MaxLoads
    /\ loadNo' = loadNo + 1
    /\ prev' = [ran |-> pc = "returned" /\ writes > 0,
                returned |-> pc = "returned",
                coords |-> IF pc = "returned" THEN CoordsOf(data) ELSE <<>>]
    /\ pre' = storage
    /\ cities' = <<>>
    /\ i' = 0
    /\ cities_coord' = EmptyMap
    /\ lookups' = EmptyMap
    /\ failedKeys' = {}
    /\ writes' = 0
    /\ LET frame == DataFrame(storage)
       IN  IF frame.err # "none"
           THEN /\ data' = <<>>
                /\ raw' = <<>>
                /\ pc' = "raised"
                /\ error' = frame.err
           ELSE /\ data' = frame.df
                /\ raw' = frame.df
                /\ IF Len(frame.df) = 0
                   THEN pc' = "raised" /\ error' = "IndexError"
                   ELSE /\ error' = "none"
                        /\ pc' = IF FirstLatitudeIsStr(frame.df)
                                 THEN "get_coordinates" ELSE "returned"
    /\ UNCHANGED <<storage, px, pres>>

\* _get_coordinates, lines 116-117
GetCoordinatesBegin ==
    /\ pc = "get_coordinates"
    /\ cities' = DropDuplicates(Project(data))
    /\ cities_coord' = EmptyMap
    /\ i' = 1
    /\ pc' = "loop"
    /\ UNCHANGED <<storage, data, error, loadNo, lookups, failedKeys, writes,
                   pre, raw, prev, px, pres>>

\* _get_coordinates, lines 118-127: one iteration of the loop
ResolveStep ==
    /\ pc = "loop"
    /\ i <= Len(cities)
    /\ LET city == cities[i]
           key  == AddressKey(city)
       IN  IF ~NeedsLookup(key, cities_coord)
           THEN /\ i' = i + 1
                /\ UNCHANGED <<cities_coord, pc, error, lookups, failedKeys>>
           ELSE \E resp \in Responses :
                  LET coord == GoogleCoords(resp)
                      fall  == Coordinates(city)
                  IN  /\ lookups' = Put(lookups, key,
                                        IF key \in DOMAIN lookups
                                        THEN lookups[key] + 1 ELSE 1)
                      /\ IF coord.err # "none"
                         THEN /\ pc' = "raised"
                              /\ error' = coord.err
                              /\ UNCHANGED <<cities_coord, i, failedKeys>>
                         ELSE IF ~coord.none
                         THEN /\ cities_coord' = Put(cities_coord, key, coord.pair)
                              /\ i' = i + 1
                              /\ UNCHANGED <<pc, error, failedKeys>>
                         ELSE /\ failedKeys' = failedKeys \cup {key}
                              /\ IF fall.err # "none"
                                 THEN /\ pc' = "raised"
                                      /\ error' = fall.err
                                      /\ UNCHANGED <<cities_coord, i>>
                                 ELSE /\ cities_coord' =
                                            Put(cities_coord, key, fall.pair)
                                      /\ i' = i + 1
                                      /\ UNCHANGED <<pc, error>>
    /\ UNCHANGED <<storage, data, cities, loadNo, writes, pre, raw, prev, px, pres>>

ApplyMappingSkipMissing ==
    /\ pc = "loop"
    /\ i > Len(cities)
    /\ data' = [j \in 1..Len(data) |->
                  IF HasKey(cities_coord, data[j].City_Country)
                  THEN MapColumns(data, cities_coord)[j] ELSE data[j]]
    /\ pc' = "to_csv"
    /\ UNCHANGED <<storage, cities, i, cities_coord, error, loadNo, lookups,
                   failedKeys, writes, pre, raw, prev, px, pres>>

\* _get_coordinates returns (line 128); _update_file, lines 135-137: the two
\* map calls raise KeyError on a record whose City_Country is no key.
ApplyMapping ==
    /\ pc = "loop"
    /\ i > Len(cities)
    /\ IF \A j \in 1..Len(data) : HasKey(cities_coord, data[j].City_Country)
       THEN /\ data' = MapColumns(data, cities_coord)
            /\ pc' = "to_csv"
            /\ UNCHANGED error
       ELSE /\ pc' = "raised"
            /\ error' = "KeyError"
            /\ UNCHANGED data
    /\ UNCHANGED <<storage, cities, i, cities_coord, loadNo, lookups,
                   failedKeys, writes, pre, raw, prev, px, pres>>

\* _update_file, line 138, and the return of __init__
ToCsv ==
    /\ pc = "to_csv"
    /\ storage' = ToCsvRows(data)
    /\ writes' = writes + 1
    /\ pc' = "returned"
    /\ UNCHANGED <<data, cities, i, cities_coord, error, loadNo, lookups,
                   failedKeys, pre, raw, prev, px, pres>>

Next ==
    \/ Construct
    \/ GetCoordinatesBegin
    \/ ResolveStep
    \/ ApplyMapping
    \/ ToCsv

Spec == Init /\ [][Next]_vars

---------------------------------------------------------------------------
(* The parser alone: _coords applied to one raw coordinate text *)

\* Magnitudes in tenths of a degree; some lie outside any latitude or
\* longitude.
Magnitudes == (0..MaxMagnitude) \cup {900, 905, 1800, 1805, 9999}

Hemispheres == {"N", "S", "E", "W"}

\* The texts of a magnitude: 2.5, and 5 as well as 5.0
MagnitudeTexts(n) ==
    {FormatFloat(n)} \cup (IF n % 10 = 0 THEN {IntStr(n \div 10)} ELSE {})

ParserInputs ==
    UNION {{m \o <<h>> : m \in MagnitudeTexts(n)} :
             n \in Magnitudes, h \in Hemispheres \cup {"X"}}
    \cup UNION {MagnitudeTexts(n) : n \in Magnitudes}
    \cup {<<h>> : h \in Hemispheres}

InitParser ==
    /\ storage = <<>>
    /\ data = <<>>
    /\ cities = <<>>
    /\ i = 0
    /\ cities_coord = EmptyMap
    /\ pc = "idle"
    /\ error = "none"
    /\ loadNo = 0
    /\ lookups = EmptyMap
    /\ failedKeys = {}
    /\ writes = 0
    /\ pre = <<>>
    /\ raw = <<>>
    /\ prev = NoPrev
    /\ px \in ParserInputs
    /\ pres = Unset

\* _coords(x) on a str x
ParseCoord ==
    /\ pres = Unset
    /\ px # <<>>
    /\ pres' = Coords(Str(px))
    /\ UNCHANGED <<loadVars, px>>

ParserSpec == InitParser /\ [][ParseCoord]_vars

---------------------------------------------------------------------------
(* What the claims speak of *)

\* The frame as this load read it, before any coordinate was replaced
RawFrame == raw

\* The distinct composite keys of the dataset
Keys == {AddressKey(RawFrame[j]) : j \in 1..Len(RawFrame)}

\* The first row in dataset order that carries key k
FirstRowWith(k) ==
    RawFrame[CHOOSE j \in 1..Len(RawFrame) :
                /\ AddressKey(RawFrame[j]) = k
                /\ \A h \in 1..(j - 1) : AddressKey(RawFrame[h]) # k]

\* The resolution pass was entered / has processed every distinct triple
PassStarted == loadNo > 0 /\ i > 0

MappingBuilt == PassStarted /\ i > Len(cities)

\* A decimal magnitude followed by exactly one hemisphere letter
WellFormed(c) ==
    /\ c.t = "str"
    /\ Len(c.s) >= 2
    /\ c.s[Len(c.s)] \in Hemispheres
    /\ c.s[1] \in Digits \cup {"."}
    /\ ParseFloat(SubSeq(c.s, 1, Len(c.s) - 1)).err = "none"

RemotePairs == {<<r.lat, r.lng>> : r \in {q \in Responses : q.kind = "OK"}}

\* The errors a failed lookup would raise if google_coords let them out
LookupErrors == {TryRequest(r) : r \in Responses} \ {"none"}

---------------------------------------------------------------------------
(* C1: in one resolution pass the remote lookup is made at most once for a
   composite key, only for keys of the dataset, and, once the pass has
   processed every distinct triple, exactly once for each key of the
   dataset, whether the attempt failed or not. *)
C1_OneLookupPerKey ==
    PassStarted =>
        /\ \A k \in DOMAIN lookups : lookups[k] = 1 /\ k \in Keys
        /\ failedKeys \subseteq DOMAIN lookups
        /\ MappingBuilt => DOMAIN lookups = Keys

\* Two rows share one key with different raw texts, and the lookup failed
C1_Witness ==
    /\ MappingBuilt
    /\ Len(cities) = 2
    /\ Cardinality(Keys) = 1
    /\ failedKeys = Keys

(* C2: whenever the loader returns, every record's Latitude and Longitude
   in memory is numeric. *)
C2_AllNumericOnReturn ==
    pc = "returned" =>
        \A j \in 1..Len(data) :
            data[j].Latitude.t = "float" /\ data[j].Longitude.t = "float"

(* C3: for every key whose lookup failed, the recorded pair is the parser
   applied to the Latitude and the Longitude text of the first row of the
   dataset that carries the key; later rows do not change it. *)
C3_FallbackIsFirstRow ==
    PassStarted =>
        \A k \in failedKeys \cap DOMAIN cities_coord :
            LET r == FirstRowWith(k)
            IN  /\ Coords(r.Latitude).err = "none"
                /\ Coords(r.Longitude).err = "none"
                /\ cities_coord[k] = <<Coords(r.Latitude).v, Coords(r.Longitude).v>>

\* A failed key whose second row would parse to another pair
C3_Witness ==
    /\ MappingBuilt
    /\ Len(RawFrame) = 2
    /\ Cardinality(Keys) = 1
    /\ failedKeys = Keys
    /\ Coordinates(RawFrame[2]).err = "none"
    /\ Coordinates(RawFrame[2]).pair # Coordinates(RawFrame[1]).pair
    /\ \A k \in Keys : cities_coord[k] = Coordinates(RawFrame[1]).pair

(* C4: a failed lookup of any kind never leaves google_coords as an
   exception: the load is never aborted by a lookup error, a pass that
   stops inside the loop stops on the fallback parser's own error for the
   place at hand, every other failed key has its fallback pair recorded,
   and a pass that has processed every triple holds every key. *)
C4_LookupFailureAbsorbed ==
    /\ error \notin LookupErrors
    /\ PassStarted =>
        /\ (pc = "raised" /\ i <= Len(cities)) =>
              /\ AddressKey(cities[i]) \in failedKeys
              /\ error = Coordinates(cities[i]).err
              /\ error \in {"ValueError", "TypeError", "IndexError"}
        /\ \A k \in failedKeys :
              \/ k \in DOMAIN cities_coord
              \/ pc = "raised" /\ i <= Len(cities) /\ k = AddressKey(cities[i])
        /\ MappingBuilt => Keys \subseteq DOMAIN cities_coord

\* Both places failed their lookup and the load returned
C4_Witness ==
    /\ pc = "returned"
    /\ MappingBuilt
    /\ Cardinality(failedKeys) = 2
    /\ failedKeys = DOMAIN cities_coord

(* C5: a load that follows a load which ran the resolution pass and wrote
   its result makes no remote lookup, does not write, does not fail and
   exposes the coordinate values of the first load; and no load whose first
   record has a numeric Latitude writes storage. *)
C5_SelfDisabling ==
    /\ prev.ran =>
          /\ lookups = EmptyMap
          /\ writes = 0
          /\ storage = pre
          /\ pc = "returned"
          /\ CoordsOf(data) = prev.coords
    /\ (loadNo > 0 /\ Len(RawFrame) > 0 /\ RawFrame[1].Latitude.t # "str") =>
          writes = 0 /\ storage = pre /\ lookups = EmptyMap

\* The second load, after a first one that resolved one place remotely and
\* one by the fallback
C5_Witness ==
    /\ prev.ran
    /\ pc = "returned"
    /\ Len(data) = 2
    /\ data[1].Latitude = Float(488)
    /\ data[2].Latitude = Float(-40)
    /\ data[2].Longitude = Float(-25)

(* C6: for a raw text made of a decimal magnitude m and one hemisphere
   letter, _coords returns +m for N and E and -m for S and W, zero for a
   zero magnitude, and raises nothing however large m is. *)
C6_SignedMagnitude ==
    pres # Unset =>
        \A n \in Magnitudes, h \in Hemispheres :
            px \in {m \o <<h>> : m \in MagnitudeTexts(n)} =>
                pres = Ok(IF h \in {"N", "E"} THEN n ELSE 0 - n)

\* 999.9W, outside any longitude, parsed to -999.9
C6_Witness ==
    /\ px = <<"9", "9", "9", ".", "9", "W">>
    /\ pres = Ok(-9999)

(* C7: a load writes storage at most once; until the write storage holds
   what it held when the load started, also when the load is aborted; and
   the write comes after every key is in the mapping and every record holds
   its key's pair, and writes exactly those records. *)
C7_WriteOnceAtEnd ==
    loadNo > 0 =>
        /\ writes <= 1
        /\ writes = 0 => storage = pre
        /\ pc = "raised" => writes = 0
        /\ writes = 1 =>
              /\ pc = "returned"
              /\ MappingBuilt
              /\ Keys \subseteq DOMAIN cities_coord
              /\ \A j \in 1..Len(data) :
                    /\ data[j].City_Country.t = "str"
                    /\ data[j].City_Country.s \in DOMAIN cities_coord
                    /\ data[j].Latitude =
                          Float(cities_coord[data[j].City_Country.s][1])
                    /\ data[j].Longitude =
                          Float(cities_coord[data[j].City_Country.s][2])
              /\ storage = ToCsvRows(data)

\* Storage rewritten with two resolved places
C7_Witness ==
    /\ writes = 1
    /\ storage # pre
    /\ Cardinality(DOMAIN cities_coord) = 2

(* C8: after a pass that was written back, every record holds the mapping
   entry of its key, the entry being the remote pair when the key's lookup
   succeeded and the parsed fallback pair of the key's first row otherwise;
   records with the same key hold the same pair. *)
C8_RecordsAgreeWithMapping ==
    (pc = "returned" /\ writes = 1) =>
        /\ \A j \in 1..Len(data) :
              LET k == AddressKey(RawFrame[j])
              IN  /\ k \in DOMAIN cities_coord
                  /\ <<data[j].Latitude, data[j].Longitude>> =
                        <<Float(cities_coord[k][1]), Float(cities_coord[k][2])>>
                  /\ IF k \in failedKeys
                     THEN cities_coord[k] = Coordinates(FirstRowWith(k)).pair
                     ELSE cities_coord[k] \in RemotePairs
        /\ \A j, h \in 1..Len(data) :
              AddressKey(RawFrame[j]) = AddressKey(RawFrame[h]) =>
                  /\ data[j].Latitude = data[h].Latitude
                  /\ data[j].Longitude = data[h].Longitude

\* Two records of one place with different raw texts, resolved by fallback
C8_Witness ==
    /\ pc = "returned"
    /\ writes = 1
    /\ Len(data) = 2
    /\ Cardinality(Keys) = 1
    /\ failedKeys = Keys
    /\ RawFrame[1].Latitude # RawFrame[2].Latitude
    /\ data[1].Latitude = data[2].Latitude
    /\ data[1].Longitude = Float(-25)

(* C9: when the lookup of a place fails and the raw text of its first row
   is not a decimal magnitude followed by one of N, S, E, W, the load is
   aborted by the parser's error and no pair is recorded for the place. *)
C9_MalformedFallbackRaises ==
    PassStarted =>
        \A k \in failedKeys :
            (~WellFormed(FirstRowWith(k).Latitude)
                \/ ~WellFormed(FirstRowWith(k).Longitude)) =>
                /\ pc = "raised"
                /\ error \in {"ValueError", "TypeError", "IndexError"}
                /\ k \notin DOMAIN cities_coord

(* C10: once the pass has built the mapping, the City_Country of every
   record is a key of it, and the write-back never raises KeyError. *)
C10_NoMissingKey ==
    /\ error # "KeyError"
    /\ MappingBuilt =>
          \A j \in 1..Len(data) : HasKey(cities_coord, data[j].City_Country)

=============================================================================
